---- MODULE Spec2Model ----
(***************************************************************************)
(* rio-vectortiles: the `tile` job of rio_vectortiles/scripts/cli.py       *)
(* (zoom planning, tile enumeration, the worker pool, the MBTiles writer)  *)
(* and the per-tile vectorizer read_transform_tile of                      *)
(* rio_vectortiles/__init__.py.                                            *)
(*                                                                         *)
(* Lengths are in kilometres, so that every product stays inside TLC's     *)
(* 32-bit integers; get_maxzoom only uses ratios of lengths.               *)
(***************************************************************************)
EXTENDS Integers, Sequences, FiniteSets, TLC

VARIABLES
    args,        \* the command's arguments and the raster they name
    pc,          \* position of the command in its body
    maxzoom,     \* cli.py:114
    tiles,       \* cli.py:120, shuffled in place at cli.py:201
    extents,     \* cli.py:126
    echoed,      \* what click.echo reported at cli.py:128-132
    disk,        \* the file at output_mbtiles as another process sees it
    writer,      \* the sqlite3 connection of cli.py:142 (its view of the file)
    tile_sizes,  \* cli.py:199
    pool,        \* multiprocessing.Pool + imap_unordered of cli.py:203-204
    arrived,     \* the (bytes, tile) pairs the loop of cli.py:204 received
    vtile        \* the features committed to the layer by read_transform_tile

vars == <<args, pc, maxzoom, tiles, extents, echoed, disk, writer,
          tile_sizes, pool, arrived, vtile>>

(***************************************************************************)
(* Bounds of the model.                                                    *)
(***************************************************************************)
\* the bounding boxes are given in cells of the 2^GridZoom x 2^GridZoom grid
GridZoom == 1
\* number of worker processes of Pool()
PoolSize == 2
\* longest contour list the tracer yields for one tile
MaxShapes == 3

(***************************************************************************)
(* Arithmetic helpers.                                                     *)
(***************************************************************************)
RECURSIVE Pow2(_)
Pow2(n) == IF n <= 0 THEN 1 ELSE 2 * Pow2(n - 1)

Max2(a, b) == IF a >= b THEN a ELSE b

\* Python's int(): truncation toward zero of num / den, den > 0
TruncDiv(num, den) == IF num >= 0 THEN num \div den ELSE -((-num) \div den)

\* a/b >= c/d for positive integers, by continued fractions (no products)
RECURSIVE FracGE(_, _, _, _)
FracGE(a, b, c, d) ==
    LET qa == a \div b
        qc == c \div d
        ra == a % b
        rc == c % d
    IN  IF qa # qc THEN qa > qc
        ELSE IF rc = 0 THEN TRUE
        ELSE IF ra = 0 THEN FALSE
        ELSE FracGE(d, rc, b, ra)

\* a/b >= sqrt(2): 1855077841/1311738121 is a convergent of sqrt(2), and no
\* fraction with a smaller denominator lies between the two
GESqrt2(a, b) == FracGE(a, b, 1855077841, 1311738121)

\* np.round(log2(a / b)) for positive integers a, b.  log2(a/b) is never
\* k + 1/2 for a rational a/b, so the rounding mode plays no part.
RECURSIVE RoundLog2(_, _)
RoundLog2(a, b) ==
    IF a < b THEN RoundLog2(2 * a, b) - 1
    ELSE IF 2 * b <= a THEN RoundLog2(a, 2 * b) + 1
    ELSE IF GESqrt2(a, b) THEN 1 ELSE 0

(***************************************************************************)
(* ZoomPlanner: cli.py:21-31.                                              *)
(***************************************************************************)
\* cli.py:25, in kilometres (40075016.686 m)
C == 40075

\* cli.py:23: res = min((e - w) / cols, (n - s) / rows) as <<num, den>>
res(w, s, e, n, rows, cols) ==
    IF (e - w) * rows <= (n - s) * cols THEN <<e - w, cols>> ELSE <<n - s, rows>>

\* get_maxzoom with the ratio upside down: log2(res * extent / C)
get_maxzoom_inverted(w, s, e, n, rows, cols, extent) ==
    LET r == res(w, s, e, n, rows, cols)
    IN  RoundLog2(r[1] * extent, C * r[2])

\* cli.py:26: log(C / res) / log2 - log(extent) / log2 = log2(C / (res * extent))
get_maxzoom(w, s, e, n, rows, cols, extent) ==
    LET r == res(w, s, e, n, rows, cols)
    IN  RoundLog2(C * r[2], r[1] * extent)

\* _extent_func multiplying where the code divides
_extent_func_times(z, maxz, min_extent, max_extent) ==
    Max2(max_extent * Pow2(maxz - z), min_extent)

\* cli.py:31: max([int(max_extent / 2 ** (maxz - z)), min_extent])
_extent_func(z, maxz, min_extent, max_extent) ==
    Max2(IF maxz >= z THEN TruncDiv(max_extent, Pow2(maxz - z))
                      ELSE max_extent * Pow2(z - maxz),
         min_extent)

(***************************************************************************)
(* Sequence helpers.                                                       *)
(***************************************************************************)
\* list(range(a, b + 1))
Range(a, b) == [k \in 1..(b - a + 1) |-> a + k - 1]

RECURSIVE Flatten(_)
Flatten(ss) == IF ss = <<>> THEN <<>> ELSE Head(ss) \o Flatten(Tail(ss))

SeqSet(s) == {s[i] : i \in DOMAIN s}

(***************************************************************************)
(* TileEnumerator: mercantile.tiles as called at cli.py:120.  A bounding   *)
(* box <<west, south, east, north>> names the cells it covers in the       *)
(* 2^GridZoom x 2^GridZoom grid of the world: columns west..east counted   *)
(* from the antimeridian, rows south..north counted from the south.  A     *)
(* tile is mercantile's (x, y, z), y counted from the north.               *)
(***************************************************************************)
Cells == Pow2(GridZoom)

\* x of the first / last tile of zoom z that column c touches
TileLo(c, z) == IF z <= GridZoom THEN c \div Pow2(GridZoom - z)
                ELSE c * Pow2(z - GridZoom)
TileHi(c, z) == IF z <= GridZoom THEN c \div Pow2(GridZoom - z)
                ELSE (c + 1) * Pow2(z - GridZoom) - 1

\* the rectangle between the upper-left and the lower-right tile, x-major
TilesOfBox(w, s, e, n, z) ==
    Flatten([i \in 1..(TileHi(e, z) - TileLo(w, z) + 1) |->
        [j \in 1..(TileHi(Cells - 1 - s, z) - TileLo(Cells - 1 - n, z) + 1) |->
            <<TileLo(w, z) + i - 1, TileLo(Cells - 1 - n, z) + j - 1, z>>]])

\* a box with west > east crosses the antimeridian and is split in two
mercantile_tiles(w, s, e, n, zooms) ==
    LET bboxes == IF w > e THEN << <<0, s, e, n>>, <<w, s, Cells - 1, n>> >>
                  ELSE << <<w, s, e, n>> >>
    IN  Flatten([b \in DOMAIN bboxes |->
            Flatten([k \in DOMAIN zooms |->
                TilesOfBox(bboxes[b][1], bboxes[b][2], bboxes[b][3],
                           bboxes[b][4], zooms[k])])])

(***************************************************************************)
(* The output file and the sqlite3 connection.                             *)
(***************************************************************************)
Absent == [kind |-> "absent"]
\* whatever file was at output_mbtiles before the command ran
PriorFile == [kind |-> "prior"]
EmptyDb == [kind |-> "mbtiles", schema |-> {}, metadata |-> <<>>, tiles |-> {}]

\* cli.py:142: sqlite3.connect(output_mbtiles, isolation_level=None).  With
\* isolation_level None the module opens no transaction, and sqlite commits
\* every statement as it is executed.
isolation_level == "None"

\* the file after the connection executed a statement that left it at db
AfterExecute(db, file) == IF isolation_level = "None" THEN db ELSE file

\* the row without the y-flip's "- 1"
tiley_off_by_one(z, y) == Pow2(z) - y

\* the row left as the tile scheme's y
tiley_unflipped(z, y) == y

\* cli.py:205
tiley(z, y) == Pow2(z) - y - 1

\* a plain INSERT into a table without the unique index
InsertPlain(rows, z, x, row, b) ==
    rows \cup {[zoom_level |-> z, tile_column |-> x, tile_row |-> row, tile_data |-> b]}

\* cli.py:206-211 with the unique index idx_zcr of cli.py:151-153:
\* INSERT OR REPLACE deletes the row that holds the key, then inserts
InsertOrReplace(rows, z, x, row, b) ==
    {r \in rows : ~(r.zoom_level = z /\ r.tile_column = x /\ r.tile_row = row)}
    \cup {[zoom_level |-> z, tile_column |-> x, tile_row |-> row, tile_data |-> b]}

\* cli.py:156-190
Metadata(input_raster, maxz) ==
    << <<"name", "rio-vectortiles">>,
       <<"type", "pbf">>,
       <<"version", "1.1">>,
       <<"description", input_raster>>,
       <<"json", [vector_layers |-> << [id |-> "raster", minzoom |-> 0,
                                        maxzoom |-> maxz, fields |-> {}] >>]>> >>

(***************************************************************************)
(* RegionVectorizer and TileEncoder: read_transform_tile,                  *)
(* __init__.py:95-124.  The tracer (rasterio.features.shapes) yields       *)
(* <<geom, value>> pairs; a geom is one polygon, [exterior, interiors],    *)
(* and a ring is an opaque name for its coordinate list.                   *)
(***************************************************************************)
\* sorted(vectorizer, key=lambda x: x[1]): the sort is stable, so item i
\* lands after the items of smaller value and the earlier items of its value
SortedPlace(s, i) ==
    Cardinality({j \in DOMAIN s : s[j][2] < s[i][2] \/ (s[j][2] = s[i][2] /\ j <= i)})

SortByValue(s) == [k \in DOMAIN s |-> s[CHOOSE i \in DOMAIN s : SortedPlace(s, i) = k]]

\* itertools.groupby(..., key=lambda x: x[1]): one <<v, geoms>> per run of
\* consecutive items with the same value
GroupBy(s) ==
    LET starts == {i \in DOMAIN s : i = 1 \/ s[i][2] # s[i - 1][2]}
        start(k) == CHOOSE i \in starts : Cardinality({j \in starts : j <= i}) = k
        stop(k) == IF k = Cardinality(starts) THEN Len(s) ELSE start(k + 1) - 1
    IN  [k \in 1..Cardinality(starts) |->
            <<s[start(k)][2], [m \in 1..(stop(k) - start(k) + 1) |-> s[start(k) + m - 1][1]]>>]

\* geometry.MultiPolygon([...]).buffer(0) of the disjoint regions the tracer
\* yields for one value: a Polygon for one region, else a MultiPolygon
buffer0(geoms) ==
    IF Len(geoms) = 1 THEN [geom_type |-> "Polygon", polygon |-> geoms[1]]
    ELSE [geom_type |-> "MultiPolygon", geoms |-> geoms]

\* __init__.py:110-116: add_ring + set_point for the exterior, then each interior
RingsOf(geom) == <<geom.exterior>> \o geom.interiors

\* a Polygon feature opened and committed inside the loop over iter_polys
FeaturePerPolygon(v, geoms) ==
    LET g == buffer0(geoms)
        iter_polys == IF g.geom_type = "Polygon" THEN <<g.polygon>> ELSE g.geoms
    IN  [k \in DOMAIN iter_polys |-> [id |-> v, rings |-> RingsOf(iter_polys[k])]]

\* __init__.py:100-118: one Polygon feature per group, committed once
Feature(v, geoms) ==
    LET g == buffer0(geoms)
        iter_polys == IF g.geom_type = "Polygon" THEN <<g.polygon>> ELSE g.geoms
    IN  << [id |-> v,
            rings |-> Flatten([k \in DOMAIN iter_polys |-> RingsOf(iter_polys[k])])] >>

\* __init__.py:99-118: the loop over the groups, in commit order
FeaturesOf(grouped_vectors) ==
    Flatten([k \in DOMAIN grouped_vectors |->
        Feature(grouped_vectors[k][1], grouped_vectors[k][2])])

\* __init__.py:95-118: the features of the layer.  (The sorted list and the
\* groups are bound by a set constructor so that each is computed once.)
Features(vectorizer) ==
    CHOOSE fs \in {FeaturesOf(grouped_vectors) :
                      grouped_vectors \in {GroupBy(sorted) :
                          sorted \in {SortByValue(vectorizer)}}} : TRUE

\* __init__.py:63-124: (gzip of the serialized tile, tile).  The bytes are
\* named by what determines them: the raster window of the tile, the layer's
\* extent and features, and the mtime gzip writes into its header.
read_transform_tile(tile, extent, vectorizer, mtime) ==
    << [window |-> tile, extent |-> extent, layer |-> Features(vectorizer),
        mtime |-> mtime],
       tile >>

\* len(b), cli.py:212: grows with the rings the tile encodes
ByteLen(b) == 20 + Len(Flatten([k \in DOMAIN b.layer |-> b.layer[k].rings]))

(***************************************************************************)
(* The command `tile`: vectortiles, cli.py:100-225.                        *)
(***************************************************************************)
\* web-mercator bounds of the raster, km: the world, and a region
World == <<-20037, -20037, 20038, 20038>>
Region == <<0, 0, 20000, 10000>>

\* a hole-free region of value 10, two disjoint regions of value 5 (the
\* second with a hole), and the region of value 0 that fills the hole
Scene ==
    << <<[exterior |-> <<1, 0>>, interiors |-> <<>>], 10>>,
       <<[exterior |-> <<2, 0>>, interiors |-> <<>>], 5>>,
       <<[exterior |-> <<3, 0>>, interiors |-> <<>>], 0>>,
       <<[exterior |-> <<4, 0>>, interiors |-> << <<4, 1>> >>], 5>> >>

\* the k-th contour of a tracer output: value v, h holes
Shape(k, v, h) == <<[exterior |-> <<k, 0>>, interiors |-> [j \in 1..h |-> <<k, j>>]], v>>

\* every tracer output of at most MaxShapes contours
Traces ==
    UNION {{[k \in 1..len |-> Shape(k, f[k][1], f[k][2])] :
                f \in [1..len -> {0, 5, 10} \X {0, 1}]} : len \in 0..MaxShapes}

\* --min-extent, --max-extent, --zoom-adjust and --minzoom at their defaults
\* (cli.py:77-92), on a 1024 x 1024 raster of the world
DefaultArgs ==
    [input_raster |-> "dem.tif", wm_bounds |-> World, shape |-> <<1024, 1024>>,
     min_extent |-> 256, max_extent |-> 512, zoom_adjust |-> 0, minzoom |-> 0,
     wgs_bounds |-> <<0, 0, 0, 0>>, dryrun |-> FALSE,
     prior |-> FALSE, bad |-> {}, traced |-> Scene]

\* the runs of the whole command: a two-zoom pyramid; a box that crosses the
\* antimeridian enumerates tile (0, 0, 0) twice.  A dry run starts no worker,
\* so its args.bad is left empty; a prior file is gone after cli.py:139, so
\* the longest runs (the crossing box) are started without one.
JobArgs ==
    {a \in {[DefaultArgs EXCEPT !.minzoom = mz, !.wgs_bounds = bb, !.dryrun = dr,
                                !.prior = pr, !.bad = bd] :
                mz \in {0, 1}, bb \in {<<0, 0, 0, 0>>, <<Cells - 1, 0, 0, 0>>},
                dr \in BOOLEAN, pr \in BOOLEAN, bd \in {{}, {<<0, 1, 1>>}}} :
        /\ a.dryrun => a.bad = {}
        /\ (~a.dryrun /\ a.wgs_bounds[1] > a.wgs_bounds[3]) => ~a.prior}

\* --max-extent values; a max_extent <= 0 makes cli.py:26 raise (log of a
\* non-positive number, then int() of nan or inf) before any extent is computed
TargetExtents == {256, 384, 512, 1024}

\* the dry runs the planner is checked on
PlanArgs ==
    {[DefaultArgs EXCEPT !.wm_bounds = wb, !.shape = sh, !.min_extent = mn,
                         !.max_extent = mx, !.zoom_adjust = za, !.minzoom = mz,
                         !.wgs_bounds = bb, !.dryrun = TRUE] :
        wb \in {World, Region}, sh \in {<<512, 512>>, <<100, 300>>, <<700, 350>>},
        mn \in {-1, 64, 256, 1024}, mx \in TargetExtents, za \in {-1, 0, 1},
        mz \in {0, 1},
        bb \in {<<0, 0, 0, 0>>, <<0, 0, Cells - 1, Cells - 1>>, <<Cells - 1, 0, 0, 0>>}}

TileArgs == {[DefaultArgs EXCEPT !.traced = t] : t \in Traces}

InitWith(argset, start) ==
    /\ args \in argset
    /\ pc = start
    /\ maxzoom = 0
    /\ tiles = <<>>
    /\ extents = <<>>
    /\ echoed = <<>>
    /\ disk = IF args.prior THEN PriorFile ELSE Absent
    /\ writer = Absent
    /\ tile_sizes = <<>>
    /\ pool = [next |-> 1, running |-> {}, outq |-> <<>>]
    /\ arrived = <<>>
    /\ vtile = <<>>

Init == InitWith(JobArgs, "start")

\* functools.partial(_extent_func, maxz=maxzoom, ...), cli.py:122-124
extent_func(z) == _extent_func(z, maxzoom, args.min_extent, args.max_extent)

\* the command without the test of cli.py:133
AfterPlanIgnoringDryrun(dryrun) == "planned"

\* cli.py:133: if not dryrun
AfterPlan(dryrun) == IF dryrun THEN "done" ELSE "planned"

\* cli.py:112-132: plan and report; a dry run ends here
Plan ==
    /\ pc = "start"
    /\ LET mz == get_maxzoom(args.wm_bounds[1], args.wm_bounds[2], args.wm_bounds[3],
                             args.wm_bounds[4], args.shape[1], args.shape[2],
                             args.max_extent) + args.zoom_adjust
           zooms == Range(args.minzoom, mz)
           ts == mercantile_tiles(args.wgs_bounds[1], args.wgs_bounds[2],
                                  args.wgs_bounds[3], args.wgs_bounds[4], zooms)
           ex == [k \in DOMAIN zooms |->
                     _extent_func(zooms[k], mz, args.min_extent, args.max_extent)]
       IN  /\ maxzoom' = mz
           /\ tiles' = ts
           /\ extents' = ex
           /\ echoed' = echoed \o
                 << [tiles |-> Len(ts), minzoom |-> args.minzoom, maxzoom |-> mz,
                     within |-> args.wgs_bounds],
                    [extents |-> ex] >>
    /\ pc' = AfterPlan(args.dryrun)
    /\ UNCHANGED <<args, disk, writer, tile_sizes, pool, arrived, vtile>>

\* cli.py:134-154: unlink a prior file, connect, create the tables and the
\* unique index (sqlite3 never wraps DDL in a transaction)
OpenWriter ==
    /\ pc = "planned"
    /\ writer' = [EmptyDb EXCEPT !.schema = {"tiles", "idx_zcr", "metadata"}]
    /\ disk' = writer'
    /\ pc' = "opened"
    /\ UNCHANGED <<args, maxzoom, tiles, extents, echoed, tile_sizes, pool,
                   arrived, vtile>>

\* cli.py:156-190
WriteMetadata ==
    /\ pc = "opened"
    /\ writer' = [writer EXCEPT
                     !.metadata = @ \o Metadata(args.input_raster, maxzoom)]
    /\ disk' = AfterExecute(writer', disk)
    /\ pc' = "metadata"
    /\ UNCHANGED <<args, maxzoom, tiles, extents, echoed, tile_sizes, pool,
                   arrived, vtile>>

\* random.shuffle: every reordering of the list
Shuffles(s) ==
    {[i \in DOMAIN s |-> s[p[i]]] :
        p \in {q \in [DOMAIN s -> DOMAIN s] : \A i, j \in DOMAIN s : q[i] = q[j] => i = j}}

\* cli.py:192-204: tile_sizes, shuffle(tiles), Pool(), imap_unordered
StartTiling ==
    /\ pc = "metadata"
    /\ tile_sizes' = [z \in args.minzoom..maxzoom |-> <<>>]
    /\ tiles' \in Shuffles(tiles)
    /\ pool' = [next |-> 1, running |-> {}, outq |-> <<>>]
    /\ pc' = "tiling"
    /\ UNCHANGED <<args, maxzoom, extents, echoed, disk, writer, arrived, vtile>>

\* a free worker takes the next task of the shuffled list
WorkerTake ==
    /\ pc = "tiling"
    /\ pool.next <= Len(tiles)
    /\ Cardinality(pool.running) < PoolSize
    /\ pool' = [pool EXCEPT !.next = @ + 1, !.running = @ \cup {pool.next}]
    /\ UNCHANGED <<args, pc, maxzoom, tiles, extents, echoed, disk, writer,
                   tile_sizes, arrived, vtile>>

\* gzip.open stamps the header of its output with the clock: two runs of
\* read_transform_tile on one tile may return different bytes
MTimes == {0, 1}

\* what the worker of task i returns: read_transform_tile's pair, or the
\* exception it raised (the repair of __init__.py:102-104 on a tile of args.bad)
TaskResult(i, mtime) ==
    IF tiles[i] \in args.bad
    THEN [ok |-> FALSE, tile |-> tiles[i]]
    ELSE [ok |-> TRUE,
          value |-> read_transform_tile(tiles[i], extent_func(tiles[i][3]),
                                        args.traced, mtime)]

\* a worker finishes its task and queues the result; it writes nothing
WorkerFinish ==
    /\ pc = "tiling"
    /\ \E i \in pool.running :
          \E mtime \in MTimes :
              pool' = [pool EXCEPT !.running = @ \ {i},
                                   !.outq = Append(@, TaskResult(i, mtime))]
    /\ UNCHANGED <<args, pc, maxzoom, tiles, extents, echoed, disk, writer,
                   tile_sizes, arrived, vtile>>

\* cli.py:204-213: one turn of the loop over imap_unordered
Consume ==
    /\ pc = "tiling"
    /\ pool.outq # <<>>
    /\ Head(pool.outq).ok
    /\ LET b == Head(pool.outq).value[1]
           x == Head(pool.outq).value[2][1]
           y == Head(pool.outq).value[2][2]
           z == Head(pool.outq).value[2][3]
       IN  /\ writer' = [writer EXCEPT
                            !.tiles = InsertOrReplace(@, z, x, tiley(z, y), b)]
           /\ disk' = AfterExecute(writer', disk)
           /\ tile_sizes' = [tile_sizes EXCEPT ![z] = Append(@, ByteLen(b))]
           /\ arrived' = Append(arrived, Head(pool.outq).value)
    /\ pool' = [pool EXCEPT !.outq = Tail(@)]
    /\ UNCHANGED <<args, pc, maxzoom, tiles, extents, echoed, vtile>>

\* cli.py:204: the worker's exception is re-raised by the iterator; the with
\* block terminates the pool and the command ends before cli.py:215
Raise ==
    /\ pc = "tiling"
    /\ pool.outq # <<>>
    /\ ~Head(pool.outq).ok
    /\ pool' = [pool EXCEPT !.running = {}, !.outq = <<>>]
    /\ pc' = "aborted"
    /\ UNCHANGED <<args, maxzoom, tiles, extents, echoed, disk, writer,
                   tile_sizes, arrived, vtile>>

\* cli.py:215: writer.commit() once the iterator is exhausted
Commit ==
    /\ pc = "tiling"
    /\ Len(arrived) = Len(tiles)
    /\ disk' = writer
    /\ pc' = "committed"
    /\ UNCHANGED <<args, maxzoom, tiles, extents, echoed, writer, tile_sizes,
                   pool, arrived, vtile>>

RECURSIVE SumSeq(_)
SumSeq(s) == IF s = <<>> THEN 0 ELSE Head(s) + SumSeq(Tail(s))

\* cli.py:217-225: min, mean (as sum and count) and max size per zoom
Stats ==
    /\ pc = "committed"
    /\ echoed' = echoed \o
          [k \in 1..(maxzoom - args.minzoom + 1) |->
              LET z == args.minzoom + k - 1
                  t == tile_sizes[z]
              IN  [zoom |-> z,
                   min |-> CHOOSE m \in SeqSet(t) : \A n \in SeqSet(t) : m <= n,
                   sum |-> SumSeq(t), count |-> Len(t),
                   max |-> CHOOSE m \in SeqSet(t) : \A n \in SeqSet(t) : m >= n]]
    /\ pc' = "done"
    /\ UNCHANGED <<args, maxzoom, tiles, extents, disk, writer, tile_sizes,
                   pool, arrived, vtile>>

Next ==
    \/ Plan
    \/ OpenWriter
    \/ WriteMetadata
    \/ StartTiling
    \/ WorkerTake
    \/ WorkerFinish
    \/ Consume
    \/ Raise
    \/ Commit
    \/ Stats

Spec == Init /\ [][Next]_vars

\* the pool's processes and the loop of cli.py:204 keep running
FairSpec == Spec /\ WF_vars(Next)

(***************************************************************************)
(* The planner alone, over a wide range of rasters and options (dry runs). *)
(***************************************************************************)
InitPlan == InitWith(PlanArgs, "start")

NextPlan == Plan

SpecPlan == InitPlan /\ [][NextPlan]_vars

(***************************************************************************)
(* read_transform_tile alone, over every short tracer output.              *)
(***************************************************************************)
InitTile == InitWith(TileArgs, "tile")

\* one call of read_transform_tile on tile (0, 0, 0)
Vectorize ==
    /\ pc = "tile"
    /\ vtile' = read_transform_tile(<<0, 0, 0>>, args.max_extent, args.traced, 0)[1].layer
    /\ pc' = "tiled"
    /\ UNCHANGED <<args, maxzoom, tiles, extents, echoed, disk, writer,
                   tile_sizes, pool, arrived>>

NextTile == Vectorize

SpecTile == InitTile /\ [][NextTile]_vars

(***************************************************************************)
(* Properties.                                                             *)
(***************************************************************************)
\* the key the container is specified to hold for tile (x, y, z)
TileKey(t) == <<t[3], t[1], Pow2(t[3]) - t[2] - 1>>

RowKey(r) == <<r.zoom_level, r.tile_column, r.tile_row>>

\* the key cli.py:205-210 stores tile (x, y, z) under
StoredKey(t) == <<t[3], t[1], tiley(t[3], t[2])>>

\* the bytes of the last pair the loop received for a key
LastArrival(key) ==
    LET ks == {k \in DOMAIN arrived : TileKey(arrived[k][2]) = key}
    IN  arrived[CHOOSE k \in ks : \A j \in ks : j <= k][1]

\* C1: whatever pairs arrived, in whatever order, the tiles table holds one
\* row per key (zoom, x, 2^z - y - 1) that arrived and no other, and the row
\* of a key holds the bytes of the last arrival for that key.
C1_KeyUniqueLastWins ==
    writer.kind = "mbtiles" =>
        /\ \A r1, r2 \in writer.tiles : RowKey(r1) = RowKey(r2) => r1 = r2
        /\ {RowKey(r) : r \in writer.tiles}
               = {TileKey(arrived[k][2]) : k \in DOMAIN arrived}
        /\ \A r \in writer.tiles : r.tile_data = LastArrival(RowKey(r))

\* a coordinate arrived twice with different bytes; one row holds the later
C1_Witness ==
    /\ writer.kind = "mbtiles"
    /\ \E j, k \in DOMAIN arrived :
          /\ j < k
          /\ arrived[j][2] = arrived[k][2]
          /\ arrived[j][1] # arrived[k][1]
          /\ \E r \in writer.tiles :
                RowKey(r) = TileKey(arrived[k][2]) /\ r.tile_data = arrived[k][1]
    /\ Cardinality(writer.tiles) < Len(arrived)

\* C2: a tile whose processing fails does not abort the job: when the command
\* has ended, it ended after the commit, and every other enumerated tile has
\* its row in the container.
C2_FailureIsolated ==
    (pc \in {"done", "aborted"} /\ ~args.dryrun) =>
        /\ pc = "done"
        /\ \A t \in SeqSet(tiles) \ args.bad :
              \E r \in disk.tiles : RowKey(r) = TileKey(t)

\* C3: no tile row is visible in the container file before the commit of
\* cli.py:215.
C3_NoRowBeforeCommit ==
    (pc \notin {"committed", "done"} /\ disk.kind = "mbtiles") => disk.tiles = {}

\* C6: a dry run leaves the output path as it was, opens no connection,
\* dispatches nothing and inserts nothing; it ends having reported the tile
\* count, the zoom range and the extents.
C6_DryRunUntouched ==
    args.dryrun =>
        /\ disk = (IF args.prior THEN PriorFile ELSE Absent)
        /\ writer = Absent
        /\ pool = [next |-> 1, running |-> {}, outq |-> <<>>]
        /\ arrived = <<>>
        /\ tile_sizes = <<>>
        /\ pc \in {"start", "done"}
        /\ pc = "done" =>
              echoed = << [tiles |-> Len(tiles), minzoom |-> args.minzoom,
                           maxzoom |-> maxzoom, within |-> args.wgs_bounds],
                          [extents |-> extents] >>

\* a finished dry run over a prior file, with tiles planned
C6_Witness == args.dryrun /\ args.prior /\ pc = "done" /\ Len(tiles) > 1

\* C9: the metadata is written once, before any tile is dispatched or
\* inserted, and its vector layer's minzoom and maxzoom are the job's.
C9_MetadataZoomRange ==
    writer.kind = "mbtiles" =>
        /\ (pc = "tiling" \/ writer.tiles # {}) => Len(writer.metadata) = 5
        /\ writer.metadata # <<>> =>
              LET layer == writer.metadata[5][2].vector_layers[1]
              IN  /\ Len(writer.metadata) = 5
                  /\ layer.minzoom = args.minzoom
                  /\ layer.maxzoom = maxzoom

\* the container holds exactly the enumerated tiles, each under its flipped
\* key with bytes a worker returned for that tile
TableExact(db) ==
    /\ db.kind = "mbtiles"
    /\ {RowKey(r) : r \in db.tiles} = {TileKey(t) : t \in SeqSet(tiles)}
    /\ Cardinality(db.tiles) = Cardinality(SeqSet(tiles))
    /\ \A r \in db.tiles :
          \E k \in DOMAIN arrived :
              /\ arrived[k][1] = r.tile_data
              /\ TileKey(arrived[k][2]) = RowKey(r)
              /\ r.tile_data.window = arrived[k][2]

\* C10: at and after the commit the container holds exactly one row per
\* enumerated tile; a worker's step never changes the container; and a run
\* in which no tile fails ends.
C10_FanInComplete ==
    /\ []((pc \in {"committed", "done"} /\ ~args.dryrun) => TableExact(disk))
    /\ [][pool'.running # pool.running => (writer' = writer /\ disk' = disk)]_vars
    /\ (args.bad = {} ~> pc = "done")

\* committed: four tasks, one coordinate twice, three rows
C10_Witness ==
    /\ pc = "committed"
    /\ Len(tiles) = 4
    /\ disk.kind = "mbtiles"
    /\ Cardinality(disk.tiles) = 3

\* C4: distinct enumerated tiles are stored under distinct keys, and the
\* stored row of a tile of zoom z lies in [0, 2^z).
C4_FlipInjective ==
    /\ \A i, j \in DOMAIN tiles :
          tiles[i] # tiles[j] => StoredKey(tiles[i]) # StoredKey(tiles[j])
    /\ \A i \in DOMAIN tiles :
          /\ tiles[i][2] \in 0..(Pow2(tiles[i][3]) - 1)
          /\ StoredKey(tiles[i])[3] \in 0..(Pow2(tiles[i][3]) - 1)

\* two enumerated tiles of one zoom and one column that differ in y
C4_Witness ==
    /\ pc = "done"
    /\ \E i, j \in DOMAIN tiles :
          /\ tiles[i][3] = tiles[j][3]
          /\ tiles[i][1] = tiles[j][1]
          /\ tiles[i][2] # tiles[j][2]

\* C5 as stated: for every z in [0, maxZoom], minExtent <= extent(z) <=
\* maxExtent; and extent(maxZoom) = maxExtent when maxExtent >= minExtent.
C5_ExtentBoundsAsStated ==
    pc = "done" =>
        /\ \A z \in 0..maxzoom :
              /\ args.min_extent <= extent_func(z)
              /\ extent_func(z) <= args.max_extent
        /\ (maxzoom >= 0 /\ args.max_extent >= args.min_extent) =>
              extent_func(maxzoom) = args.max_extent

\* C5 amended: for every z in [0, maxZoom], extent(z) >= minExtent; and when
\* maxExtent >= minExtent, extent(z) <= maxExtent and extent(maxZoom) =
\* maxExtent.
C5_ExtentBounds ==
    pc = "done" =>
        \A z \in 0..maxzoom :
            /\ args.min_extent <= extent_func(z)
            /\ args.max_extent >= args.min_extent =>
                  /\ extent_func(z) <= args.max_extent
                  /\ extent_func(maxzoom) = args.max_extent

\* a pyramid whose lower zooms are clamped to min_extent below max_extent
C5_Witness ==
    /\ pc = "done"
    /\ maxzoom >= 2
    /\ args.min_extent < args.max_extent
    /\ extent_func(maxzoom) = args.max_extent
    /\ extent_func(0) = args.min_extent
    /\ \E z \in 0..maxzoom : args.min_extent < extent_func(z) /\ extent_func(z) < args.max_extent

\* the maxzoom the command plans for this raster with --max-extent e
PlannedMaxzoom(e) ==
    get_maxzoom(args.wm_bounds[1], args.wm_bounds[2], args.wm_bounds[3],
                args.wm_bounds[4], args.shape[1], args.shape[2], e)
    + args.zoom_adjust

\* C7 as stated: for the same raster, a larger target extent never plans a
\* smaller maxzoom.
C7_MaxzoomNonDecreasing ==
    pc = "done" =>
        \A e \in TargetExtents : e > args.max_extent => PlannedMaxzoom(e) >= maxzoom

\* C7 amended: for the same raster, a larger target extent never plans a
\* larger maxzoom.
C7_MaxzoomNonIncreasing ==
    pc = "done" =>
        \A e \in TargetExtents : e > args.max_extent => PlannedMaxzoom(e) <= maxzoom

\* a larger extent that plans a strictly smaller maxzoom
C7_Witness ==
    /\ pc = "done"
    /\ \E e \in TargetExtents : e > args.max_extent /\ PlannedMaxzoom(e) < maxzoom

\* the regions the tracer yielded for value v, in the tracer's order
PolysOf(v) ==
    LET same == SelectSeq(args.traced, LAMBDA it : it[2] = v)
    IN  [k \in DOMAIN same |-> same[k][1]]

TracedValues == {args.traced[k][2] : k \in DOMAIN args.traced}

\* C8 as stated: each region of a value is a feature of its own, with that
\* value as id and the region's exterior followed by its holes as rings.
C8_FeaturePerPolygon ==
    pc = "tiled" =>
        \A v \in TracedValues :
            /\ Cardinality({k \in DOMAIN vtile : vtile[k].id = v}) = Len(PolysOf(v))
            /\ \A i \in DOMAIN PolysOf(v) :
                  \E k \in DOMAIN vtile :
                      /\ vtile[k].id = v
                      /\ vtile[k].rings
                             = <<PolysOf(v)[i].exterior>> \o PolysOf(v)[i].interiors

\* C8 amended: each value is one feature, with that value as id; its rings
\* are those of the value's regions, region after region, each region's
\* exterior followed by its holes.
C8_FeaturePerValue ==
    pc = "tiled" =>
        /\ Len(vtile) = Cardinality(TracedValues)
        /\ \A v \in TracedValues :
              \E k \in DOMAIN vtile :
                  /\ vtile[k].id = v
                  /\ vtile[k].rings
                         = Flatten([i \in DOMAIN PolysOf(v) |->
                               <<PolysOf(v)[i].exterior>> \o PolysOf(v)[i].interiors])

\* a value with two regions, one of them with a hole, in one feature
C8_Witness ==
    /\ pc = "tiled"
    /\ \E v \in TracedValues :
          /\ Len(PolysOf(v)) >= 2
          /\ \E i \in DOMAIN PolysOf(v) : PolysOf(v)[i].interiors # <<>>
          /\ \E k \in DOMAIN vtile : vtile[k].id = v /\ Len(vtile[k].rings) >= 3

====
